---- MODULE Spec2Model ----
(***************************************************************************)
(* A model of recruiting.py: the pipeline driver                           *)
(* (scrape_athletes_from_url), the race-result normalizer and lineup join  *)
(* (parse_event_results_json, fetch_lineup, parse_lineup_html) and the     *)
(* athlete aggregator (aggregate_athletes, normalize_name).                *)
(*                                                                         *)
(* Text the code only copies is a TLA+ string.  Text the code computes on  *)
(* is a sequence: a place and a club name are sequences of one-character   *)
(* strings (str.strip, str.lower, substring test), a person's name is the  *)
(* sequence of its whitespace-separated tokens (what the name parser       *)
(* works on).  The empty string / empty sequence also stands for an absent *)
(* or null JSON field wherever the code reads it through "get(k) or ...",  *)
(* which treats the three alike.                                           *)
(***************************************************************************)
EXTENDS Integers, Sequences, FiniteSets, TLC

VARIABLES
    pc,                 \* position of the driver (or of a single-function run)
    event_links,        \* get_event_links(html)
    idx,                \* 1-based index of the link the for loop is at
    attempt,            \* number of fetch attempts made for the current link
    job_id,             \* job_id of the current link
    json_str,           \* last value returned by fetch_event_results_json
    calls,              \* history: per link, number of fetch_event_results_json calls
    backoffs,           \* history: per link, number of time.sleep(2) calls
    outcome,            \* history: per link, "pending" | "nomatch" | "skipped" | "parsed"
    race_rows,          \* parse_event_results_json: race_rows
    boat_ids,           \* parse_event_results_json: boat_ids
    tasks,              \* the pool's futures, keyed by (job_id, boat_id, n)
    done_order,         \* order in which as_completed yielded the futures
    boat_lineups,       \* parse_event_results_json: boat_lineups
    event_results,      \* value returned by the last parse_event_results_json
    all_event_results,  \* driver: all_event_results
    athletes,           \* value returned by aggregate_athletes
    abort               \* "" or the place an exception left the run from

vars == <<pc, event_links, idx, attempt, job_id, json_str, calls, backoffs, outcome,
          race_rows, boat_ids, tasks, done_order, boat_lineups, event_results,
          all_event_results, athletes, abort>>

----------------------------------------------------------------------------
(* Bounds of the model *)

\* links on the landing page
MaxEvents == 2
\* results in one event payload (single-function runs of the normalizer and the join)
MaxRows == 2
\* athletes in one lineup (single-function runs of the join)
MaxLineup == 2
\* athletes over all records handed to the aggregator (single-function runs)
MaxAgg == 3

(* Program constants *)

\* for attempt in range(3)
MaxAttempts == 3
\* ThreadPoolExecutor(max_workers=8)
MaxWorkers == 8

\* Python's None, where the code keeps it apart from the empty string
NoneV == "None"

----------------------------------------------------------------------------
(* Text helpers *)

IsSpace(c) == c = " "

LowerChar(c) ==
    CASE c = "M" -> "m"
      [] c = "S" -> "s"
      [] c = "R" -> "r"
      [] c = "X" -> "x"
      [] OTHER -> c

\* str.lower()
Lower(s) == [i \in 1..Len(s) |-> LowerChar(s[i])]

\* the "in" operator on two strings: s occurs in t
Contains(s, t) ==
    \E i \in 1..(Len(t) - Len(s) + 1) : SubSeq(t, i, i + Len(s) - 1) = s

RECURSIVE LStrip(_)
LStrip(s) ==
    IF s # <<>> /\ IsSpace(Head(s)) THEN LStrip(Tail(s)) ELSE s

RECURSIVE RStrip(_)
RStrip(s) ==
    IF s # <<>> /\ IsSpace(s[Len(s)]) THEN RStrip(SubSeq(s, 1, Len(s) - 1)) ELSE s

\* str.strip()
Strip(s) == RStrip(LStrip(s))

\* a or b or ... or default, over sequence-valued fields
RECURSIVE FirstOfSeq(_, _)
FirstOfSeq(vals, default) ==
    IF vals = <<>> THEN default
    ELSE IF Head(vals) # <<>> THEN Head(vals)
    ELSE FirstOfSeq(Tail(vals), default)

\* a or b or ... or default, over string-valued fields
RECURSIVE FirstOfStr(_, _)
FirstOfStr(vals, default) ==
    IF vals = <<>> THEN default
    ELSE IF Head(vals) # "" THEN Head(vals)
    ELSE FirstOfStr(Tail(vals), default)

\* dict.get(k, default)
Get(d, k, default) == IF k \in DOMAIN d THEN d[k] ELSE default

----------------------------------------------------------------------------
(* normalize_name *)

\* HumanName(name): the first token is the first name and, when there are two
\* or more tokens, the last token is the last name; what lies between is dropped
ParseHumanName(name) ==
    [first |-> IF Len(name) >= 1 THEN name[1] ELSE "",
     last  |-> IF Len(name) >= 2 THEN name[Len(name)] ELSE ""]

normalize_name(name) ==
    LET parsed == ParseHumanName(name)
        first == parsed.first
        last == parsed.last
    IN  IF first # "" /\ last # "" THEN <<first, last>>
        ELSE IF first # "" THEN <<first>>
        ELSE IF last # "" THEN <<last>>
        ELSE name

----------------------------------------------------------------------------
(* fetch_event_results_json, fetch_lineup, parse_lineup_html *)

\* the None a failed fetch returns, and the empty body of a 200 response
NoneBody == [kind |-> "None"]
EmptyBody == [kind |-> "empty"]

\* truth value of "if json_str" / "if not json_str"
Truthy(body) == body.kind \notin {"None", "empty"}

\* a response: [kind |-> "exc"] when scraper.get raises (transport error,
\* timeout), else [kind |-> "http", status, text]
fetch_event_results_json(resp) ==
    IF resp.kind = "http" /\ resp.status = 200 THEN resp.text ELSE NoneBody

\* one line of the lineup page: m says whether the pattern
\* "seat: name - age (club)" matches it, the other fields are its groups
RECURSIVE parse_lineup_html(_)
parse_lineup_html(html) ==
    IF html = <<>> THEN <<>>
    ELSE LET line == Head(html)
             rest == parse_lineup_html(Tail(html))
         IN  IF line.m
             THEN <<[seat |-> line.seat, name |-> line.name,
                     age |-> line.age, club |-> Strip(line.club)]>> \o rest
             ELSE rest

\* a fetch_lineup that parses the body whatever the status
fetch_lineup_any_status(resp) ==
    IF resp.kind = "http"
    THEN [raised |-> FALSE, value |-> parse_lineup_html(resp.text)]
    ELSE IF resp.kind = "exc_escapes"
    THEN [raised |-> TRUE, value |-> <<>>]
    ELSE [raised |-> FALSE, value |-> <<>>]

\* What the future of a fetch_lineup task holds: the list returned, or an
\* exception.  kind "exc": scraper.get raised and the handler returned [];
\* kind "exc_escapes": an exception left fetch_lineup (raised while the
\* handler itself ran), so future.result() raises it.
fetch_lineup(resp) ==
    IF resp.kind = "http" /\ resp.status = 200
    THEN [raised |-> FALSE, value |-> parse_lineup_html(resp.text)]
    ELSE IF resp.kind = "exc_escapes"
    THEN [raised |-> TRUE, value |-> <<>>]
    ELSE [raised |-> FALSE, value |-> <<>>]

----------------------------------------------------------------------------
(* parse_event_results_json: payload to race rows *)

RaceName(race) ==
    FirstOfStr(<<race.stageName, race.displayNumber, race.raceName>>, "Final")

\* boatId is a number in the payload; 0 stands for 0, null and absent alike
BoatIdOf(result) ==
    IF result.boatId # 0 THEN ToString(result.boatId) ELSE NoneV

ResolvedPlace(result) ==
    FirstOfSeq(<<result.place, result.orderOfFinishPlace,
                 result.finishPlace, result.officialPlace>>, <<>>)

ResolvedFinish(result) ==
    FirstOfStr(<<result.finishTimeString, result.adjustedTimeString,
                 result.rawTimeString, result.officialTimeString>>, "")

ResolvedMargin(result) ==
    FirstOfStr(<<result.marginString, result.adjustedTimeDeltaString,
                 result.officialMarginString>>, "")

\* a boat count that counts every result, placed or not
NumBoatsAll(results) == Len(results)

\* the num_boats counter after the loop over a race's results
RECURSIVE NumBoats(_)
NumBoats(results) ==
    IF results = <<>> THEN 0
    ELSE (IF ResolvedPlace(Head(results)) # <<>> THEN 1 ELSE 0)
         + NumBoats(Tail(results))

RowOf(result, race_name, num_boats) ==
    [boat_id    |-> BoatIdOf(result),
     boat_label |-> result.boatLabel,
     club_name  |-> FirstOfSeq(<<result.orgName, result.longName>>, <<>>),
     place      |-> ResolvedPlace(result),
     bow        |-> result.lane,
     finish     |-> ResolvedFinish(result),
     margin     |-> ResolvedMargin(result),
     race_name  |-> race_name,
     num_boats  |-> num_boats]

\* the rows of one race, each stamped with the race's boat count
RaceRows(race) ==
    LET n == NumBoats(race.results)
    IN  [i \in 1..Len(race.results) |-> RowOf(race.results[i], RaceName(race), n)]

\* race_rows after the loop over data["races"]
RECURSIVE NormalizeRows(_)
NormalizeRows(races) ==
    IF races = <<>> THEN <<>>
    ELSE RaceRows(Head(races)) \o NormalizeRows(Tail(races))

\* boat_ids after the loop: (job_id, boat_id) of every row with a boat id,
\* none when job_id is falsy
BoatIds(rows, jid) ==
    IF jid = NoneV \/ jid = "" THEN {}
    ELSE {<<jid, rows[i].boat_id>> : i \in {j \in 1..Len(rows) : rows[j].boat_id # NoneV}}

EventName(data, given) ==
    IF given # NoneV /\ given # "" THEN given
    ELSE FirstOfStr(<<data.long_desc, data.event_label>>, "")

\* json.loads raises on a body that is no JSON document; data.get raises on
\* a document that is no object
ParseRaises(body) == body.kind \in {"notjson", "array"}

----------------------------------------------------------------------------
(* parse_event_results_json: the join of rows and lineups *)

\* a club test that accepts containment in either direction
ClubMatchesEitherWay(club_name, a) ==
    /\ club_name # <<>>
    /\ a.club # <<>>
    /\ \/ Contains(Lower(club_name), Lower(a.club))
       \/ Contains(Lower(a.club), Lower(club_name))

ClubMatches(club_name, a) ==
    club_name # <<>> /\ a.club # <<>> /\ Contains(Lower(club_name), Lower(a.club))

\* the loop "for a in boat_lineups[boat_id]"
RECURSIVE FilterByClub(_, _)
FilterByClub(lineup, club_name) ==
    IF lineup = <<>> THEN <<>>
    ELSE LET a == Head(lineup)
             rest == FilterByClub(Tail(lineup), club_name)
         IN  IF ClubMatches(club_name, a) THEN <<a>> \o rest
             ELSE IF club_name = <<>> THEN <<a>> \o rest
             ELSE rest

\* a join that takes the lineup branch for any fetched boat, also when the
\* lineup fetched is empty
RowAthletesAnyFetched(info, lineups) ==
    IF info.boat_id # NoneV /\ info.boat_id \in DOMAIN lineups
    THEN LET picked == FilterByClub(lineups[info.boat_id], info.club_name)
         IN  IF picked = <<>> THEN lineups[info.boat_id] ELSE picked
    ELSE IF info.boat_label # <<>>
    THEN <<[name |-> info.boat_label, seat |-> NoneV, club |-> info.club_name]>>
    ELSE <<>>

\* the athletes the join attaches to one row
RowAthletes(info, lineups) ==
    IF info.boat_id # NoneV /\ info.boat_id \in DOMAIN lineups
       /\ lineups[info.boat_id] # <<>>
    THEN LET picked == FilterByClub(lineups[info.boat_id], info.club_name)
         IN  IF picked = <<>> THEN lineups[info.boat_id] ELSE picked
    ELSE IF info.boat_label # <<>>
    THEN <<[name |-> info.boat_label, seat |-> NoneV, club |-> info.club_name]>>
    ELSE <<>>

RecordOf(info, ev_name, aths) ==
    [event     |-> ev_name,
     race      |-> info.race_name,
     place     |-> info.place,
     bow       |-> info.bow,
     club      |-> info.club_name,
     athletes  |-> aths,
     finish    |-> info.finish,
     margin    |-> info.margin,
     num_boats |-> info.num_boats]

\* a join loop over the boats in the order their fetches completed, then over
\* the rows of no fetched boat
RECURSIVE JoinInOrder(_, _, _)
JoinInOrder(rows, lineups, ev_name) ==
    IF rows = <<>> THEN <<>>
    ELSE LET aths == RowAthletes(Head(rows), lineups)
             rest == JoinInOrder(Tail(rows), lineups, ev_name)
         IN  IF aths = <<>> THEN rest
             ELSE <<RecordOf(Head(rows), ev_name, aths)>> \o rest

RECURSIVE JoinBoats(_, _, _, _)
JoinBoats(order, rows, lineups, ev_name) ==
    IF order = <<>>
    THEN LET Unfetched(r) == r.boat_id \notin DOMAIN lineups
         IN  JoinInOrder(SelectSeq(rows, Unfetched), lineups, ev_name)
    ELSE LET OfBoat(r) == r.boat_id = Head(order)
         IN  JoinInOrder(SelectSeq(rows, OfBoat), lineups, ev_name)
             \o JoinBoats(Tail(order), rows, lineups, ev_name)

JoinRowsByCompletion(rows, lineups, ev_name) ==
    JoinBoats(done_order, rows, lineups, ev_name)

\* the loop "for info in race_rows"
RECURSIVE JoinRows(_, _, _)
JoinRows(rows, lineups, ev_name) ==
    IF rows = <<>> THEN <<>>
    ELSE LET aths == RowAthletes(Head(rows), lineups)
             rest == JoinRows(Tail(rows), lineups, ev_name)
         IN  IF aths = <<>> THEN rest
             ELSE <<RecordOf(Head(rows), ev_name, aths)>> \o rest

----------------------------------------------------------------------------
(* aggregate_athletes *)

RaceId(result) ==
    <<result.event, result.race, result.place, result.bow, result.club, result.finish>>

\* a filter that forgets the place test
SkippedNoFinishOnly(result) == result.finish = ""

\* "not result.get('finish') or str(result.get('place')).strip() == '999'"
Skipped(result) ==
    result.finish = "" \/ Strip(result.place) = <<"9", "9", "9">>

Participation(result, athlete) ==
    [event     |-> result.event,
     race      |-> result.race,
     place     |-> result.place,
     bow       |-> result.bow,
     club      |-> result.club,
     finish    |-> result.finish,
     margin    |-> result.margin,
     seat      |-> Get(athlete, "seat", ""),
     num_boats |-> result.num_boats]

\* athletes[key] of the defaultdict: the default entry on first use
EntryOf(agg, key) ==
    IF key \in DOMAIN agg THEN agg[key]
    ELSE [races |-> <<>>, clubs |-> {}, names |-> {}, age |-> ""]

\* an athlete step that never consults seen_names
AddAthleteNoDedup(st, result, athlete) ==
    LET key == normalize_name(athlete.name)
        old == EntryOf(st.agg, key)
        new == [races |-> Append(old.races, Participation(result, athlete)),
                clubs |-> old.clubs \cup {Get(athlete, "club", <<>>)},
                names |-> old.names \cup {athlete.name},
                age   |-> Get(athlete, "age", "")]
    IN  [agg  |-> [k \in DOMAIN st.agg \cup {key} |->
                      IF k = key THEN new ELSE st.agg[k]],
         seen |-> st.seen]

\* one athlete of one result: st is [agg, seen]
AddAthlete(st, result, athlete) ==
    LET key == normalize_name(athlete.name)
        race_id == RaceId(result)
    IN  IF <<key, race_id>> \in st.seen THEN st
        ELSE LET old == EntryOf(st.agg, key)
                 new == [races |-> Append(old.races, Participation(result, athlete)),
                         clubs |-> old.clubs \cup {Get(athlete, "club", <<>>)},
                         names |-> old.names \cup {athlete.name},
                         age   |-> Get(athlete, "age", "")]
             IN  [agg  |-> [k \in DOMAIN st.agg \cup {key} |->
                               IF k = key THEN new ELSE st.agg[k]],
                  seen |-> st.seen \cup {<<key, race_id>>}]

\* the loop "for athlete in result['athletes']"
RECURSIVE AddAthletes(_, _, _)
AddAthletes(st, result, aths) ==
    IF aths = <<>> THEN st
    ELSE AddAthletes(AddAthlete(st, result, Head(aths)), result, Tail(aths))

\* one iteration of "for result in event_results": seen_names starts empty
AddResult(agg, result) ==
    IF Skipped(result) THEN agg
    ELSE AddAthletes([agg |-> agg, seen |-> {}], result, result.athletes).agg

\* an aggregator whose seen_names lives across the records
RECURSIVE AggregateSeen(_, _)
AggregateSeen(st, results) ==
    IF results = <<>> THEN st.agg
    ELSE IF Skipped(Head(results)) THEN AggregateSeen(st, Tail(results))
    ELSE AggregateSeen(AddAthletes(st, Head(results), Head(results).athletes),
                       Tail(results))

AggregateFromSharedSeen(agg, results) ==
    AggregateSeen([agg |-> agg, seen |-> {}], results)

RECURSIVE AggregateFrom(_, _)
AggregateFrom(agg, results) ==
    IF results = <<>> THEN agg
    ELSE AggregateFrom(AddResult(agg, Head(results)), Tail(results))

aggregate_athletes(results) == AggregateFrom(<<>>, results)

----------------------------------------------------------------------------
(* The world the pipeline runs against: pages, payloads, responses *)

\* get_event_links keeps the anchors whose href starts with the event-results
\* path; an anchor is [event, job_id, event_id], "" for a missing parameter
Anchors ==
    {[event |-> FALSE, job_id |-> "", event_id |-> ""],
     [event |-> TRUE, job_id |-> "9168", event_id |-> "7"],
     [event |-> TRUE, job_id |-> "9168", event_id |-> ""]}

RECURSIVE get_event_links(_)
get_event_links(html) ==
    IF html = <<>> THEN <<>>
    ELSE IF Head(html).event
    THEN <<[job_id |-> Head(html).job_id, event_id |-> Head(html).event_id]>>
         \o get_event_links(Tail(html))
    ELSE get_event_links(Tail(html))

\* re.search(r'job_id=(\d+)&?.*&event_id=(\d+)', link)
LinkMatches(link) == link.job_id # "" /\ link.event_id # ""

LandingResponses ==
    {[kind |-> "exc"]}
    \cup {[kind |-> "http", text |-> h] :
             h \in UNION {[1..n -> Anchors] : n \in 0..MaxEvents}}

BlankResult ==
    [boatId |-> 0, boatLabel |-> <<>>, orgName |-> <<>>, longName |-> <<>>,
     place |-> <<>>, orderOfFinishPlace |-> <<>>, finishPlace |-> <<>>,
     officialPlace |-> <<>>, lane |-> "",
     finishTimeString |-> "", adjustedTimeString |-> "", rawTimeString |-> "",
     officialTimeString |-> "",
     marginString |-> "", adjustedTimeDeltaString |-> "", officialMarginString |-> ""]

BlankRace == [stageName |-> "", displayNumber |-> "", raceName |-> "", results |-> <<>>]

\* one heat, two boats with a lineup each
PayloadA ==
    [kind |-> "object", long_desc |-> "Mens 8+", event_label |-> "M8",
     races |-> <<
        [BlankRace EXCEPT !.stageName = "Heat 1", !.results = <<
            [BlankResult EXCEPT !.boatId = 1, !.boatLabel = <<"MSOE", "A">>,
                                !.orgName = <<"M", "s">>, !.place = <<"1">>,
                                !.lane = "3", !.finishTimeString = "6:01"],
            [BlankResult EXCEPT !.boatId = 2, !.longName = <<"X">>,
                                !.orderOfFinishPlace = <<"2">>, !.lane = "4",
                                !.rawTimeString = "6:05", !.marginString = "0:04"]>>]>>]

\* two heats: a boat that rows twice, a scratch known by its label only, and
\* a result with neither boat id nor label
PayloadB ==
    [kind |-> "object", long_desc |-> "", event_label |-> "W4x",
     races |-> <<
        [BlankRace EXCEPT !.results = <<
            [BlankResult EXCEPT !.boatId = 1, !.place = <<"1">>, !.lane = "1",
                                !.finishTimeString = "7:10"]>>],
        [BlankRace EXCEPT !.raceName = "Final", !.results = <<
            [BlankResult EXCEPT !.boatLabel = <<"John", "Smith">>,
                                !.orgName = <<"M", "s">>, !.lane = "2"],
            [BlankResult EXCEPT !.lane = "5", !.place = <<"9", "9", "9">>],
            [BlankResult EXCEPT !.boatId = 1, !.officialPlace = <<"2">>,
                                !.lane = "6", !.officialTimeString = "7:02"]>>]>>]

\* bodies a 200 response of the event-results endpoint may carry
Bodies ==
    {EmptyBody, [kind |-> "notjson"], [kind |-> "array"], PayloadA, PayloadB}

EventResponses ==
    {[kind |-> "exc"], [kind |-> "http", status |-> 500, text |-> [kind |-> "notjson"]]}
    \cup {[kind |-> "http", status |-> 200, text |-> b] : b \in Bodies}

NoMatchLine == [m |-> FALSE, seat |-> "", name |-> <<>>, age |-> "", club |-> <<>>]

\* the lineup page the site holds for a boat
PageOf(boat_id) ==
    IF boat_id = "1"
    THEN <<[m |-> TRUE, seat |-> "1", name |-> <<"John", "Q", "Smith">>,
            age |-> "19", club |-> <<"m", "S", "R">>],
           NoMatchLine,
           [m |-> TRUE, seat |-> "2", name |-> <<"Jane", "Doe">>,
            age |-> "20", club |-> <<"s", " ">>]>>
    ELSE <<[m |-> TRUE, seat |-> "1", name |-> <<"John", "Smith">>,
            age |-> "19", club |-> <<"m", "s">>]>>

LineupResponses(boat_id) ==
    {[kind |-> "exc"], [kind |-> "exc_escapes"],
     [kind |-> "http", status |-> 500, text |-> PageOf(boat_id)],
     [kind |-> "http", status |-> 200, text |-> PageOf(boat_id)],
     [kind |-> "http", status |-> 200, text |-> <<NoMatchLine>>]}

----------------------------------------------------------------------------
(* scrape_athletes_from_url *)

NoTask == [st |-> "queued", resp |-> [kind |-> "none"],
           fut |-> [raised |-> FALSE, value |-> <<>>]]

Init ==
    /\ pc = "start"
    /\ event_links = <<>>
    /\ idx = 0
    /\ attempt = 0
    /\ job_id = NoneV
    /\ json_str = NoneBody
    /\ calls = <<>>
    /\ backoffs = <<>>
    /\ outcome = <<>>
    /\ race_rows = <<>>
    /\ boat_ids = {}
    /\ tasks = <<>>
    /\ done_order = <<>>
    /\ boat_lineups = <<>>
    /\ event_results = <<>>
    /\ all_event_results = <<>>
    /\ athletes = <<>>
    /\ abort = ""

parseVars == <<race_rows, boat_ids, tasks, done_order, boat_lineups, event_results>>
histVars == <<calls, backoffs, outcome>>

\* html = scraper.get(main_url).text; event_links = get_event_links(html)
FetchLanding ==
    /\ pc = "start"
    /\ \E resp \in LandingResponses :
        IF resp.kind = "exc"
        THEN /\ pc' = "aborted"
             /\ abort' = "landing"
             /\ UNCHANGED <<event_links, idx, calls, backoffs, outcome>>
        ELSE /\ event_links' = get_event_links(resp.text)
             /\ idx' = 1
             /\ calls' = [i \in 1..Len(event_links') |-> 0]
             /\ backoffs' = [i \in 1..Len(event_links') |-> 0]
             /\ outcome' = [i \in 1..Len(event_links') |-> "pending"]
             /\ pc' = "link"
             /\ abort' = abort
    /\ UNCHANGED <<attempt, job_id, json_str, all_event_results, athletes>>
    /\ UNCHANGED parseVars

\* the for loop is exhausted
LoopEnd ==
    /\ pc = "link"
    /\ idx > Len(event_links)
    /\ pc' = "aggregate"
    /\ UNCHANGED <<event_links, idx, attempt, job_id, json_str, all_event_results,
                   athletes, abort>>
    /\ UNCHANGED parseVars
    /\ UNCHANGED histVars

\* "if not m: continue"
LinkNoMatch ==
    /\ pc = "link"
    /\ idx <= Len(event_links)
    /\ ~LinkMatches(event_links[idx])
    /\ outcome' = [outcome EXCEPT ![idx] = "nomatch"]
    /\ idx' = idx + 1
    /\ UNCHANGED <<pc, event_links, attempt, job_id, json_str, calls, backoffs,
                   all_event_results, athletes, abort>>
    /\ UNCHANGED parseVars

\* job_id, event_id = m.group(1), m.group(2); json_str = None
LinkMatch ==
    /\ pc = "link"
    /\ idx <= Len(event_links)
    /\ LinkMatches(event_links[idx])
    /\ job_id' = event_links[idx].job_id
    /\ json_str' = NoneBody
    /\ attempt' = 0
    /\ pc' = "fetch"
    /\ UNCHANGED <<event_links, idx, all_event_results, athletes, abort>>
    /\ UNCHANGED parseVars
    /\ UNCHANGED histVars

\* where the retry loop goes after an attempt returned body
AfterAttempt(body) == IF Truthy(body) THEN "delay" ELSE "backoff"

\* one iteration of "for attempt in range(3)", up to the break or the print
FetchAttempt ==
    /\ pc = "fetch"
    /\ attempt < MaxAttempts
    /\ \E resp \in EventResponses :
        /\ json_str' = fetch_event_results_json(resp)
        /\ pc' = AfterAttempt(json_str')
    /\ attempt' = attempt + 1
    /\ calls' = [calls EXCEPT ![idx] = @ + 1]
    /\ UNCHANGED <<event_links, idx, job_id, backoffs, outcome, all_event_results,
                   athletes, abort>>
    /\ UNCHANGED parseVars

\* time.sleep(2), then the next attempt
BackoffRetry ==
    /\ pc = "backoff"
    /\ attempt < MaxAttempts
    /\ backoffs' = [backoffs EXCEPT ![idx] = @ + 1]
    /\ pc' = "fetch"
    /\ UNCHANGED <<event_links, idx, attempt, job_id, json_str, calls, outcome,
                   all_event_results, athletes, abort>>
    /\ UNCHANGED parseVars

\* time.sleep(2) after the last attempt, then "if not json_str: continue"
BackoffSkip ==
    /\ pc = "backoff"
    /\ attempt >= MaxAttempts
    /\ backoffs' = [backoffs EXCEPT ![idx] = @ + 1]
    /\ outcome' = [outcome EXCEPT ![idx] = "skipped"]
    /\ idx' = idx + 1
    /\ pc' = "link"
    /\ UNCHANGED <<event_links, attempt, job_id, json_str, calls,
                   all_event_results, athletes, abort>>
    /\ UNCHANGED parseVars

\* time.sleep(1)
Delay ==
    /\ pc = "delay"
    /\ pc' = "parse"
    /\ UNCHANGED <<event_links, idx, attempt, job_id, json_str, all_event_results,
                   athletes, abort>>
    /\ UNCHANGED parseVars
    /\ UNCHANGED histVars

----------------------------------------------------------------------------
(* parse_event_results_json as the driver calls it: json_str, job_id=job_id *)

\* data = json.loads(json_str) ... race_rows.extend(rows); an exception here
\* leaves scrape_athletes_from_url, which catches nothing
Normalize ==
    /\ pc = "parse"
    /\ IF ParseRaises(json_str)
       THEN /\ pc' = "aborted"
            /\ abort' = "parse"
            /\ UNCHANGED parseVars
       ELSE /\ race_rows' = NormalizeRows(json_str.races)
            /\ boat_ids' = BoatIds(race_rows', job_id)
            /\ tasks' = <<>>
            /\ done_order' = <<>>
            /\ boat_lineups' = <<>>
            /\ event_results' = <<>>
            /\ pc' = "submit"
            /\ abort' = abort
    /\ UNCHANGED <<event_links, idx, attempt, job_id, json_str, all_event_results,
                   athletes>>
    /\ UNCHANGED histVars

\* a slip of the dispatch: one call of executor.submit for every row that has
\* a boat id, <<job, boat, row>>
FuturesPerRow(rows, ids) ==
    {<<id[1], id[2], i>> : <<id, i>> \in
        {x \in ids \X (1..Len(rows)) : rows[x[2]].boat_id = x[1][2]}}

\* the futures of the dispatch: one call of executor.submit for every element
\* of boat_ids, <<job, boat, n>> being the n-th future made for that pair
Futures(rows, ids) == {<<id[1], id[2], 1>> : id \in ids}

\* future_to_boat = {executor.submit(fetch_lineup, job_id, boat_id): ...}
Submit ==
    /\ pc = "submit"
    /\ tasks' = [k \in Futures(race_rows, boat_ids) |-> NoTask]
    /\ pc' = "pool"
    /\ UNCHANGED <<event_links, idx, attempt, job_id, json_str, race_rows, boat_ids,
                   done_order, boat_lineups, event_results, all_event_results,
                   athletes, abort>>
    /\ UNCHANGED histVars

Running == {k \in DOMAIN tasks : tasks[k].st = "running"}

\* a free worker thread of the pool takes a queued call
TaskStart(k) ==
    /\ pc = "pool"
    /\ tasks[k].st = "queued"
    /\ Cardinality(Running) < MaxWorkers
    /\ tasks' = [tasks EXCEPT ![k].st = "running"]
    /\ UNCHANGED <<pc, event_links, idx, attempt, job_id, json_str, race_rows,
                   boat_ids, done_order, boat_lineups, event_results,
                   all_event_results, athletes, abort>>
    /\ UNCHANGED histVars

\* fetch_lineup(job_id, boat_id) runs to its end in the worker
TaskFinish(k) ==
    /\ pc = "pool"
    /\ tasks[k].st = "running"
    /\ \E resp \in LineupResponses(k[2]) :
        tasks' = [tasks EXCEPT ![k] =
                    [st |-> "done", resp |-> resp, fut |-> fetch_lineup(resp)]]
    /\ UNCHANGED <<pc, event_links, idx, attempt, job_id, json_str, race_rows,
                   boat_ids, done_order, boat_lineups, event_results,
                   all_event_results, athletes, abort>>
    /\ UNCHANGED histVars

\* try: boat_lineups[boat_id_b] = future.result()
\* except Exception: boat_lineups[boat_id_b] = []
Collected(fut) == IF fut.raised THEN <<>> ELSE fut.value

\* one iteration of "for future in as_completed(future_to_boat)"
Collect(k) ==
    /\ pc = "pool"
    /\ tasks[k].st = "done"
    /\ boat_lineups' = (k[2] :> Collected(tasks[k].fut)) @@ boat_lineups
    /\ tasks' = [tasks EXCEPT ![k].st = "collected"]
    /\ done_order' = Append(done_order, k[2])
    /\ UNCHANGED <<pc, event_links, idx, attempt, job_id, json_str, race_rows,
                   boat_ids, event_results, all_event_results, athletes, abort>>
    /\ UNCHANGED histVars

\* a slip of the drain: the stage goes on as soon as no call is left in the
\* queue, without waiting for the calls that run
PoolStarted == \A k \in DOMAIN tasks : tasks[k].st # "queued"

\* as_completed has yielded every future and the with block has left
PoolDrained == \A k \in DOMAIN tasks : tasks[k].st = "collected"

\* the pool is drained and shut down (its futures are gone); the join loop
\* runs, the function returns and the driver extends all_event_results
JoinAndReturn ==
    /\ pc = "pool"
    /\ PoolDrained
    /\ event_results' = JoinRows(race_rows, boat_lineups, EventName(json_str, NoneV))
    /\ all_event_results' = all_event_results \o event_results'
    /\ outcome' = [outcome EXCEPT ![idx] = "parsed"]
    /\ idx' = idx + 1
    /\ pc' = "link"
    /\ tasks' = <<>>
    /\ UNCHANGED <<event_links, attempt, job_id, json_str, calls, backoffs, race_rows,
                   boat_ids, done_order, boat_lineups, athletes, abort>>

\* athletes = aggregate_athletes(all_event_results)
Aggregate ==
    /\ pc = "aggregate"
    /\ athletes' = aggregate_athletes(all_event_results)
    /\ pc' = "done"
    /\ UNCHANGED <<event_links, idx, attempt, job_id, json_str, all_event_results,
                   abort>>
    /\ UNCHANGED parseVars
    /\ UNCHANGED histVars

Next ==
    \/ FetchLanding
    \/ LoopEnd
    \/ LinkNoMatch
    \/ LinkMatch
    \/ FetchAttempt
    \/ BackoffRetry
    \/ BackoffSkip
    \/ Delay
    \/ Normalize
    \/ Submit
    \/ \E k \in DOMAIN tasks : TaskStart(k)
    \/ \E k \in DOMAIN tasks : TaskFinish(k)
    \/ \E k \in DOMAIN tasks : Collect(k)
    \/ JoinAndReturn
    \/ Aggregate

Spec == Init /\ [][Next]_vars

----------------------------------------------------------------------------
(* Runs of one function on inputs drawn from bounded sets *)

Idle ==
    /\ event_links = <<>>
    /\ idx = 0
    /\ attempt = 0
    /\ calls = <<>>
    /\ backoffs = <<>>
    /\ outcome = <<>>
    /\ tasks = <<>>
    /\ done_order = <<>>
    /\ abort = ""

\* a list cut in two at c
CutAt(f, c) == <<SubSeq(f, 1, c), SubSeq(f, c + 1, Len(f))>>

(* the normalizer: lines 296-361 of parse_event_results_json *)

\* every combination of the four place fields on a result without a boat id,
\* and two results with one
NormResults ==
    {[BlankResult EXCEPT !.place = p1, !.orderOfFinishPlace = p2,
                         !.finishPlace = p3, !.officialPlace = p4] :
        p1 \in {<<>>, <<"1">>}, p2 \in {<<>>, <<"2">>},
        p3 \in {<<>>, <<"3">>}, p4 \in {<<>>, <<"4">>}}
    \cup {[BlankResult EXCEPT !.boatId = 1, !.finishPlace = <<"3">>],
          [BlankResult EXCEPT !.boatId = 1, !.boatLabel = <<"MSOE", "A">>]}

\* the results f as one heat (c < 0) or as two heats cut at c
NormRaces(f, c) ==
    IF c < 0 THEN <<[BlankRace EXCEPT !.results = f]>>
    ELSE <<[BlankRace EXCEPT !.stageName = "Heat 1", !.results = CutAt(f, c)[1]],
           [BlankRace EXCEPT !.results = CutAt(f, c)[2]]>>

InitNorm ==
    /\ Idle
    /\ pc = "norm_in"
    /\ \E n \in 0..MaxRows : \E f \in [1..n -> NormResults] : \E c \in -1..n :
        json_str = [kind |-> "object", long_desc |-> "E", event_label |-> "",
                    races |-> NormRaces(f, c)]
    /\ job_id \in {NoneV, "9168"}
    /\ race_rows = <<>>
    /\ boat_ids = {}
    /\ boat_lineups = <<>>
    /\ event_results = <<>>
    /\ all_event_results = <<>>
    /\ athletes = <<>>

NormalizeOnly ==
    /\ pc = "norm_in"
    /\ race_rows' = NormalizeRows(json_str.races)
    /\ boat_ids' = BoatIds(race_rows', job_id)
    /\ pc' = "norm_out"
    /\ UNCHANGED <<event_links, idx, attempt, job_id, json_str, calls, backoffs,
                   outcome, tasks, done_order, boat_lineups, event_results,
                   all_event_results, athletes, abort>>

SpecNorm == InitNorm /\ [][NormalizeOnly]_vars

(* the join: lines 380-415 of parse_event_results_json *)

JoinRowSet ==
    {[boat_id |-> b, boat_label |-> l, club_name |-> c, place |-> <<"1">>,
      bow |-> "3", finish |-> "6:01", margin |-> "", race_name |-> "Final",
      num_boats |-> 1] :
        b \in {NoneV, "1"}, l \in {<<>>, <<"MSOE", "A">>},
        c \in {<<>>, <<"M", "s">>, <<"x">>}}
    \cup {[boat_id |-> "2", boat_label |-> <<"MSOE", "B">>, club_name |-> <<"M", "s">>,
           place |-> <<"2">>, bow |-> "4", finish |-> "6:05", margin |-> "0:04",
           race_name |-> "Final", num_boats |-> 1]}

JoinAthletes ==
    {[seat |-> "1", name |-> <<"John", "Q", "Smith">>, age |-> "19",
      club |-> <<"m", "S", "r">>],
     [seat |-> "2", name |-> <<"Jane", "Doe">>, age |-> "20", club |-> <<"s">>],
     [seat |-> "3", name |-> <<"Bob", "Roe">>, age |-> "21", club |-> <<>>]}

InitJoin ==
    /\ Idle
    /\ pc = "join_in"
    /\ json_str = NoneBody
    /\ job_id = "9168"
    /\ \E n \in 0..MaxRows : race_rows \in [1..n -> JoinRowSet]
    /\ boat_ids = {}
    /\ \/ boat_lineups = <<>>
       \/ \E n \in 0..MaxLineup : \E l \in [1..n -> JoinAthletes] :
            boat_lineups = ("1" :> l)
    /\ event_results = <<>>
    /\ all_event_results = <<>>
    /\ athletes = <<>>

JoinOnly ==
    /\ pc = "join_in"
    /\ event_results' = JoinRows(race_rows, boat_lineups, "E")
    /\ pc' = "join_out"
    /\ UNCHANGED <<event_links, idx, attempt, job_id, json_str, calls, backoffs,
                   outcome, race_rows, boat_ids, tasks, done_order, boat_lineups,
                   all_event_results, athletes, abort>>

SpecJoin == InitJoin /\ [][JoinOnly]_vars

(* aggregate_athletes *)

AggAthletes ==
    {[seat |-> "1", name |-> <<"John", "Q", "Smith">>, age |-> "19",
      club |-> <<"m", "s">>],
     [seat |-> "2", name |-> <<"John", "Smith">>, age |-> "20", club |-> <<"x">>],
     [seat |-> "3", name |-> <<"Jane", "Doe">>, age |-> "21", club |-> <<"m", "s">>],
     [name |-> <<"John", "Smith">>, seat |-> NoneV, club |-> <<"M", "s">>]}

\* what a record holds besides its athletes: two races that count, a record
\* with no finish time and a DNS/DNF record
AggRows ==
    LET base == [event |-> "E", race |-> "Heat 1", place |-> <<"1">>, bow |-> "3",
                 club |-> <<"M", "s">>, finish |-> "6:01", margin |-> "",
                 num_boats |-> 2]
    IN  {base,
         [base EXCEPT !.race = "Final"],
         [base EXCEPT !.finish = ""],
         [base EXCEPT !.place = <<"9", "9", "9">>]}

AggRecord(row, aths) ==
    [event |-> row.event, race |-> row.race, place |-> row.place, bow |-> row.bow,
     club |-> row.club, athletes |-> aths, finish |-> row.finish,
     margin |-> row.margin, num_boats |-> row.num_boats]

\* the records that hold the athletes f in order: record i holds the athletes
\* after cut i-1 up to cut i and has the fields of rows[i]
RECURSIVE AggSplit(_, _, _)
AggSplit(f, cuts, rows) ==
    IF f = <<>> THEN <<>>
    ELSE LET c == IF cuts = {} THEN Len(f)
                  ELSE CHOOSE x \in cuts : \A y \in cuts : x <= y
         IN  <<AggRecord(Head(rows), SubSeq(f, 1, c))>>
             \o AggSplit(SubSeq(f, c + 1, Len(f)), {x - c : x \in cuts \ {c}}, Tail(rows))

InitAgg ==
    /\ Idle
    /\ pc = "agg_in"
    /\ json_str = NoneBody
    /\ job_id = NoneV
    /\ race_rows = <<>>
    /\ boat_ids = {}
    /\ boat_lineups = <<>>
    /\ event_results = <<>>
    /\ \E n \in 0..MaxAgg : \E f \in [1..n -> AggAthletes] :
        \E cuts \in SUBSET (1..(n - 1)) :
            \E rows \in [1..(Cardinality(cuts) + 1) -> AggRows] :
                all_event_results = AggSplit(f, cuts, rows)
    /\ athletes = <<>>

AggregateOnly ==
    /\ pc = "agg_in"
    /\ athletes' = aggregate_athletes(all_event_results)
    /\ pc' = "agg_out"
    /\ UNCHANGED <<event_links, idx, attempt, job_id, json_str, calls, backoffs,
                   outcome, race_rows, boat_ids, tasks, done_order, boat_lineups,
                   event_results, all_event_results, abort>>

SpecAgg == InitAgg /\ [][AggregateOnly]_vars

----------------------------------------------------------------------------
(* Properties of the normalizer *)

\* the first non-empty of place, orderOfFinishPlace, finishPlace, officialPlace
FirstPlaceField(r) ==
    IF r.place # <<>> THEN r.place
    ELSE IF r.orderOfFinishPlace # <<>> THEN r.orderOfFinishPlace
    ELSE IF r.finishPlace # <<>> THEN r.finishPlace
    ELSE r.officialPlace

\* number of results in the heats before heat h
RECURSIVE RowsBefore(_, _)
RowsBefore(races, h) ==
    IF h <= 1 THEN 0 ELSE RowsBefore(races, h - 1) + Len(races[h - 1].results)

PlacedIn(race) ==
    {j \in 1..Len(race.results) : FirstPlaceField(race.results[j]) # <<>>}

\* C7: every result of a heat is a row of that heat, in order, and every row of
\* the heat carries the number of the heat's results whose resolved place is
\* non-empty; a result with an empty resolved place is a row too, not counted.
C7_BoatCount ==
    pc = "norm_out" =>
        LET races == json_str.races
        IN  /\ Len(race_rows) = RowsBefore(races, Len(races) + 1)
            /\ \A h \in 1..Len(races) : \A i \in 1..Len(races[h].results) :
                LET row == race_rows[RowsBefore(races, h) + i]
                IN  /\ row.place = FirstPlaceField(races[h].results[i])
                    /\ row.num_boats = Cardinality(PlacedIn(races[h]))

\* C7 witness: a heat of two results, one placed through a fallback field only
\* and one with no place at all, both stamped with a boat count of 1
C7_Witness ==
    /\ pc = "norm_out"
    /\ Len(json_str.races) = 1
    /\ Len(race_rows) = 2
    /\ json_str.races[1].results[1].place = <<>>
    /\ race_rows[1].place = <<"4">>
    /\ race_rows[2].place = <<>>
    /\ race_rows[1].num_boats = 1
    /\ race_rows[2].num_boats = 1

----------------------------------------------------------------------------
(* Properties of the join *)

\* the row's boat has a non-empty lineup in the mapping
Usable(row, lineups) ==
    /\ row.boat_id # NoneV
    /\ row.boat_id \in DOMAIN lineups
    /\ lineups[row.boat_id] # <<>>

\* the rows that come out as a record
KeptRows(rows, lineups) ==
    {i \in 1..Len(rows) : Usable(rows[i], lineups) \/ rows[i].boat_label # <<>>}

\* the place in the output of kept row i
RankOf(i, rows, lineups) == Cardinality({j \in KeptRows(rows, lineups) : j <= i})

\* s occurs in t, letter case apart
OccursNoCase(s, t) ==
    \E k \in 0..(Len(t) - Len(s)) :
        \A j \in 1..Len(s) : LowerChar(t[k + j]) = LowerChar(s[j])

\* C8: a row whose boat has no usable lineup comes out with exactly one
\* athlete, named by the boat label and without a seat, when the label is
\* non-empty, and does not come out when it is empty; every record has at
\* least one athlete.
C8_SyntheticFallback ==
    pc = "join_out" =>
        /\ Len(event_results) = Cardinality(KeptRows(race_rows, boat_lineups))
        /\ \A k \in 1..Len(event_results) : event_results[k].athletes # <<>>
        /\ \A i \in 1..Len(race_rows) :
            (~Usable(race_rows[i], boat_lineups) /\ race_rows[i].boat_label # <<>>) =>
                LET rec == event_results[RankOf(i, race_rows, boat_lineups)]
                IN  /\ Len(rec.athletes) = 1
                    /\ rec.athletes[1].name = race_rows[i].boat_label
                    /\ rec.athletes[1].seat = NoneV
                    /\ DOMAIN rec.athletes[1] = {"name", "seat", "club"}
                    /\ rec.club = race_rows[i].club_name

\* C8 witness: a labelled row whose boat was fetched with an empty lineup came
\* out with its synthetic athlete, and an unlabelled row without a boat id
\* was dropped
C8_Witness ==
    /\ pc = "join_out"
    /\ Len(race_rows) = 2
    /\ race_rows[1].boat_id = "1"
    /\ boat_lineups = ("1" :> <<>>)
    /\ race_rows[1].boat_label # <<>>
    /\ race_rows[2].boat_id = NoneV
    /\ race_rows[2].boat_label = <<>>
    /\ Len(event_results) = 1
    /\ event_results[1].athletes[1].name = race_rows[1].boat_label

\* C9: a row whose boat has a non-empty lineup gets the whole lineup when its
\* club name is empty, else the athletes whose club contains the row's club
\* name (letter case apart), in lineup order, else, when there is none, the
\* whole lineup.
C9_ClubFilter ==
    pc = "join_out" =>
        \A i \in 1..Len(race_rows) :
            Usable(race_rows[i], boat_lineups) =>
                LET row == race_rows[i]
                    lineup == boat_lineups[row.boat_id]
                    InClub(a) == OccursNoCase(row.club_name, a.club)
                    matching == SelectSeq(lineup, InClub)
                    rec == event_results[RankOf(i, race_rows, boat_lineups)]
                IN  rec.athletes =
                        IF row.club_name = <<>> THEN lineup
                        ELSE IF matching = <<>> THEN lineup
                        ELSE matching

\* C9 witness: of a lineup of two, a row of club "Ms" kept only the athlete of
\* club "mSr" (not the one of club "s"), and a row of club "x" kept both
C9_Witness ==
    /\ pc = "join_out"
    /\ Len(race_rows) = 2
    /\ Len(event_results) = 2
    /\ race_rows[1].boat_id = "1"
    /\ race_rows[2].boat_id = "1"
    /\ race_rows[1].club_name = <<"M", "s">>
    /\ race_rows[2].club_name = <<"x">>
    /\ Len(boat_lineups["1"]) = 2
    /\ boat_lineups["1"][1].club = <<"s">>
    /\ boat_lineups["1"][2].club = <<"m", "S", "r">>
    /\ event_results[1].athletes = <<boat_lineups["1"][2]>>
    /\ event_results[2].athletes = boat_lineups["1"]

----------------------------------------------------------------------------
(* Properties of the aggregator *)

\* the record counts: it has a finish time and its place is not "999"
Counts(rec) == rec.finish # "" /\ rec.place # <<"9", "9", "9">>

\* the record lists an athlete whose name normalizes to key
Lists(rec, key) ==
    \E a \in 1..Len(rec.athletes) : normalize_name(rec.athletes[a].name) = key

\* the records, by index, that count and list key
RecordsOf(key) ==
    {i \in 1..Len(all_event_results) :
        Counts(all_event_results[i]) /\ Lists(all_event_results[i], key)}

\* the first athlete of the record whose name normalizes to key
FirstListed(rec, key) ==
    LET a == CHOOSE x \in 1..Len(rec.athletes) :
                /\ normalize_name(rec.athletes[x].name) = key
                /\ \A y \in 1..(x - 1) : normalize_name(rec.athletes[y].name) # key
    IN  rec.athletes[a]

\* the participation entries of key that carry the race identity of rec
EntriesFor(key, rec) ==
    IF key \notin DOMAIN athletes THEN {}
    ELSE {e \in 1..Len(athletes[key].races) :
            LET p == athletes[key].races[e]
            IN  <<p.event, p.race, p.place, p.bow, p.club, p.finish>> = RaceId(rec)}

\* the records i < j count, have the same race identity, both list key, and no
\* third record that lists key has that identity
IsPair(i, j, key) ==
    LET rs == all_event_results
    IN  /\ i < j
        /\ i \in RecordsOf(key)
        /\ j \in RecordsOf(key)
        /\ RaceId(rs[i]) = RaceId(rs[j])
        /\ \A m \in RecordsOf(key) \ {i, j} : RaceId(rs[m]) # RaceId(rs[i])

\* the normalized names the input lists
InputKeys ==
    UNION {{normalize_name(all_event_results[i].athletes[a].name) :
                a \in 1..Len(all_event_results[i].athletes)} :
           i \in 1..Len(all_event_results)}

\* C2 as stated: two counting records with one race identity that both list
\* an athlete leave exactly one participation entry of that identity for him.
C2_OneEntryPerPair ==
    pc = "agg_out" =>
        \A key \in InputKeys : \A i, j \in 1..Len(all_event_results) :
            IsPair(i, j, key) =>
                Cardinality(EntriesFor(key, all_event_results[i])) = 1

\* C2 as amended: two counting records with one race identity that both list
\* an athlete leave two participation entries of that identity for him, one
\* for each record: names seen are forgotten from one record to the next.
C2_OneEntryPerRecordOfPair ==
    pc = "agg_out" =>
        \A key \in InputKeys : \A i, j \in 1..Len(all_event_results) :
            IsPair(i, j, key) =>
                Cardinality(EntriesFor(key, all_event_results[i])) = 2

\* C2 witness: John Smith is listed by a lineup athlete in one record and by a
\* label-made athlete in a second record of the same race identity
C2_Witness ==
    /\ pc = "agg_out"
    /\ Len(all_event_results) = 2
    /\ IsPair(1, 2, <<"John", "Smith">>)
    /\ "age" \in DOMAIN all_event_results[1].athletes[1]
    /\ "age" \notin DOMAIN all_event_results[2].athletes[1]
    /\ Len(athletes[<<"John", "Smith">>].races) = 2

\* C6: a record with an empty finish or with place "999" leaves nothing in the
\* result: every key of the result is listed by a record that counts, every
\* participation entry is the entry of such a record, and every name variant
\* and club comes from an athlete of such a record.
C6_DroppedLeaveNothing ==
    pc = "agg_out" =>
        \A key \in DOMAIN athletes :
            LET recs == {all_event_results[i] : i \in RecordsOf(key)}
                from == UNION {{r.athletes[a] : a \in {x \in 1..Len(r.athletes) :
                                   normalize_name(r.athletes[x].name) = key}} :
                               r \in recs}
                e == athletes[key]
            IN  /\ recs # {}
                /\ \A p \in 1..Len(e.races) :
                    /\ e.races[p].finish # ""
                    /\ e.races[p].place # <<"9", "9", "9">>
                    /\ \E r \in recs :
                        /\ EntriesFor(key, r) # {}
                        /\ p \in EntriesFor(key, r)
                /\ e.names \subseteq {a.name : a \in from}
                /\ e.clubs \subseteq {Get(a, "club", <<>>) : a \in from}

\* C6 witness: John Smith is listed only by a "999" record and by a record
\* without finish, Jane Doe by a record that counts; only Jane Doe comes out
C6_Witness ==
    /\ pc = "agg_out"
    /\ Len(all_event_results) = 3
    /\ all_event_results[1].place = <<"9", "9", "9">>
    /\ all_event_results[2].finish = ""
    /\ Lists(all_event_results[1], <<"John", "Smith">>)
    /\ Lists(all_event_results[2], <<"John", "Smith">>)
    /\ DOMAIN athletes = {<<"Jane", "Doe">>}

\* the place of counting record i among the entries of key
EntryRank(i, key) == Cardinality({m \in RecordsOf(key) : m <= i})

\* C10: one record adds at most one participation entry for one normalized
\* name: a key has as many entries as there are counting records that list
\* it, and the entry of a record carries the seat of the first athlete in the
\* record's list whose name normalizes to the key.
C10_OnePerNameInRecord ==
    pc = "agg_out" =>
        \A key \in InputKeys :
            RecordsOf(key) # {} =>
                /\ key \in DOMAIN athletes
                /\ Len(athletes[key].races) = Cardinality(RecordsOf(key))
                /\ \A i \in RecordsOf(key) :
                    LET p == athletes[key].races[EntryRank(i, key)]
                        rec == all_event_results[i]
                    IN  /\ p.seat = Get(FirstListed(rec, key), "seat", "")
                        /\ <<p.event, p.race, p.place, p.bow, p.club, p.finish>>
                           = RaceId(rec)

\* C10 witness: one record lists John Smith (seat 2) and then John Q Smith
\* (seat 1); the one entry of John Smith has seat 2
C10_Witness ==
    /\ pc = "agg_out"
    /\ Len(all_event_results) = 1
    /\ Len(all_event_results[1].athletes) >= 2
    /\ all_event_results[1].athletes[1].name = <<"John", "Smith">>
    /\ all_event_results[1].athletes[1].seat = "2"
    /\ all_event_results[1].athletes[2].name = <<"John", "Q", "Smith">>
    /\ <<"John", "Smith">> \in DOMAIN athletes
    /\ Len(athletes[<<"John", "Smith">>].races) = 1
    /\ athletes[<<"John", "Smith">>].races[1].seat = "2"

----------------------------------------------------------------------------
(* Properties of the pipeline *)

\* the retry loop: at most three calls per link, none after a payload came
\* back, a skipped link had all three calls fail and is never parsed, and
\* records come from parsed links only
RetryLoopInv ==
    /\ \A i \in DOMAIN calls : calls[i] <= MaxAttempts
    /\ pc = "fetch" => ~Truthy(json_str)
    /\ \A i \in DOMAIN outcome : outcome[i] = "skipped" => calls[i] = MaxAttempts
    /\ pc \in {"delay", "parse", "submit", "pool"} =>
        /\ Truthy(json_str)
        /\ outcome[idx] = "pending"
    /\ all_event_results # <<>> => \E i \in DOMAIN outcome : outcome[i] = "parsed"

\* C1: at most three fetches per event link and none after a payload; after
\* three failures the event is skipped, nothing is raised, and the driver goes
\* on and gets to the aggregation, so a run that skipped an event never ends
\* in an exception.
C1_RetryThenSkip ==
    /\ RetryLoopInv
    /\ (\E i \in DOMAIN outcome : outcome[i] = "skipped") => pc # "aborted"

\* C3: no body of a 200 response makes parse_event_results_json raise; a run
\* is only ever left through an exception of the landing page fetch.
C3_OnlyLandingAborts ==
    pc = "aborted" => abort = "landing"

\* the lineup request failed: no response, an exception, or a status other
\* than 200
LineupFetchFailed(resp) == resp.kind # "http" \/ resp.status # 200

\* C4: in the pool, the mapping holds for every collected boat what its own
\* fetch gave: the empty lineup if it failed, its parsed page if not; no other
\* entry is touched, and the stage can always go on, up to its return.
C4_FailureIsolated ==
    pc = "pool" =>
        /\ DOMAIN boat_lineups = {k[2] : k \in {t \in DOMAIN tasks :
                                                  tasks[t].st = "collected"}}
        /\ \A k \in DOMAIN tasks :
            tasks[k].st = "collected" =>
                boat_lineups[k[2]] =
                    IF LineupFetchFailed(tasks[k].resp) THEN <<>>
                    ELSE parse_lineup_html(tasks[k].resp.text)
        /\ ENABLED (\/ \E k \in DOMAIN tasks : TaskStart(k)
                    \/ \E k \in DOMAIN tasks : TaskFinish(k)
                    \/ \E k \in DOMAIN tasks : Collect(k)
                    \/ JoinAndReturn)

\* C4 witness: of two boats, the fetch of boat 1 raised at collection and the
\* fetch of boat 2 returned its lineup; both are collected
C4_Witness ==
    /\ pc = "pool"
    /\ DOMAIN tasks = {<<"9168", "1", 1>>, <<"9168", "2", 1>>}
    /\ \A k \in DOMAIN tasks : tasks[k].st = "collected"
    /\ tasks[<<"9168", "1", 1>>].fut.raised
    /\ boat_lineups["1"] = <<>>
    /\ boat_lineups["2"] # <<>>

\* C5: whatever the order in which the fetches complete, the records returned
\* are the rows that are kept, in row order, each with the fields of its row.
C5_RowOrder ==
    pc \notin {"submit", "pool"} =>
        /\ Len(event_results) = Cardinality(KeptRows(race_rows, boat_lineups))
        /\ \A i \in KeptRows(race_rows, boat_lineups) :
            LET rec == event_results[RankOf(i, race_rows, boat_lineups)]
                row == race_rows[i]
            IN  /\ rec.race = row.race_name
                /\ rec.place = row.place
                /\ rec.bow = row.bow
                /\ rec.club = row.club_name
                /\ rec.finish = row.finish
                /\ rec.margin = row.margin
                /\ rec.num_boats = row.num_boats

\* C5 witness: the fetch of the second row's boat completed first, and the
\* records are in row order
C5_Witness ==
    /\ pc = "link"
    /\ done_order = <<"2", "1">>
    /\ Len(race_rows) = 2
    /\ race_rows[1].boat_id = "1"
    /\ race_rows[2].boat_id = "2"
    /\ Len(event_results) = 2
    /\ event_results[1].bow = race_rows[1].bow
    /\ event_results[2].bow = race_rows[2].bow
    /\ event_results[1].bow # event_results[2].bow

\* the backoffs that lie between the attempts made so far for link i: one
\* fewer than the attempts, and one more while the driver is about to make
\* another attempt for it
BackoffsBetween(i) ==
    IF calls[i] = 0 THEN 0
    ELSE IF pc = "fetch" /\ idx = i THEN calls[i]
    ELSE calls[i] - 1

\* C11: the 2-unit backoff occurs between attempts only: every link has had
\* exactly one backoff for each pair of consecutive attempts, none after its
\* successful attempt and none after its third failed attempt.
C11_BackoffBetweenAttempts ==
    \A i \in DOMAIN calls : backoffs[i] = BackoffsBetween(i)

----------------------------------------------------------------------------
(* Properties of the pool *)

\* the boat ids the rows of the event refer to
BoatsOfRows == {race_rows[i].boat_id : i \in 1..Len(race_rows)} \ {NoneV}

\* the futures made for boat b
FuturesOf(b) == {k \in DOMAIN tasks : k[2] = b}

\* C12: in one run of the stage every boat id of the rows has exactly one
\* future, no future is made for anything else, and the mapping is written
\* once per boat: no boat is written twice, and when all futures are collected
\* every boat of the rows has been written once.
C12_DispatchedAndWrittenOnce ==
    /\ \A i, j \in DOMAIN done_order : i # j => done_order[i] # done_order[j]
    /\ pc = "pool" =>
        /\ \A b \in BoatsOfRows : Cardinality(FuturesOf(b)) = 1
        /\ \A k \in DOMAIN tasks : k[2] \in BoatsOfRows
        /\ Len(done_order) =
               Cardinality({k \in DOMAIN tasks : tasks[k].st = "collected"})
        /\ \A i \in DOMAIN done_order :
               \E k \in FuturesOf(done_order[i]) : tasks[k].st = "collected"
        /\ DOMAIN boat_lineups = {done_order[i] : i \in DOMAIN done_order}

\* C12 witness: two rows, of two heats, refer to boat 1, its one future is
\* collected and the mapping was written once
C12_Witness ==
    /\ pc = "pool"
    /\ \E i, j \in 1..Len(race_rows) :
        /\ i # j
        /\ race_rows[i].boat_id = "1"
        /\ race_rows[j].boat_id = "1"
        /\ race_rows[i].num_boats # race_rows[j].num_boats
    /\ DOMAIN tasks = {<<"9168", "1", 1>>}
    /\ tasks[<<"9168", "1", 1>>].st = "collected"
    /\ done_order = <<"1">>

\* the futures whose fetch is not over or whose result is not in the mapping
Outstanding == {k \in DOMAIN tasks : tasks[k].st # "collected"}

====
